---- MODULE Spec2Model ----
(***************************************************************************)
(* Ownership model of the quickjs-rs binding: Runtime / Context handles,   *)
(* the Value guard around engine reference counts, Array views, eval and   *)
(* the wrap_fn trampoline.  The engine is represented by the state its     *)
(* entry points read and write: one reference count per heap block, one    *)
(* pending-exception slot per context, free counters for contexts and      *)
(* runtimes.                                                               *)
(***************************************************************************)
EXTENDS Integers, Sequences, FiniteSets, Bags, TLC

\* ---------------------------------------------------------------- bounds
MaxContexts == 2
MaxBlocks == 2
MaxValues == 3
MaxDepth == 2
MaxLen == 1
PosBits == 1

Contexts == 1..MaxContexts
Blocks == 1..MaxBlocks

\* ------------------------------------------------- 64-bit integers
\* An i64 is the pair <<hi, lo>> of its two 32-bit words, each read as a
\* signed 32-bit number: the value is hi * 2^32 + (lo mod 2^32).
I32Min == -2147483647 - 1
I32Max == 2147483647

I64(hi, lo) == <<hi, lo>>

\* the int32 i widened to i64 (sign extension)
SignExtend(i) == I64(IF i < 0 THEN -1 ELSE 0, i)

\* `v == (int32_t)v`
FitsInt32(v) == v = SignExtend(v[2])

IntegerInputs ==
    { I64(0, 0), I64(0, 1), I64(-1, -1),
      I64(0, I32Max), I64(-1, I32Min),
      I64(0, I32Min),          \* 2^31
      I64(-1, I32Max),         \* -2^31 - 1
      I64(I32Max, -1),         \* i64::MAX
      I64(I32Min, 0) }         \* i64::MIN

\* the integers the ownership model builds Values from
SmallIntegers == { I64(0, 0), I64(0, 1) }

\* the integers handed to a summing function: 23, 42 and the largest int32
SumInputs == { I64(0, 23), I64(0, 42), I64(0, I32Max) }

\* the halves of a 32-bit word: w = Hi16(w) * 2^16 + Lo16(w)
Lo16(w) == w % 65536
Hi16(w) == ((w - Lo16(w)) \div 65536) % 65536

\* the 32-bit word with the unsigned halves h and l
Word(h, l) == (IF h >= 32768 THEN h - 65536 ELSE h) * 65536 + l

\* a + b on i64, for operands whose sum is in range
Add64(a, b) ==
    LET l == Lo16(a[2]) + Lo16(b[2])
        h == Hi16(a[2]) + Hi16(b[2]) + (l \div 65536)
    IN I64(a[1] + b[1] + (h \div 65536), Word(h % 65536, l % 65536))

\* ------------------------------------------------- tagged engine values
JSInt(i) == [tag |-> "INT", ptr |-> 0, int |-> i, dbl |-> I64(0, 0)]
JSFloat(v) == [tag |-> "FLOAT64", ptr |-> 0, int |-> 0, dbl |-> v]
JSPtr(t, b) == [tag |-> t, ptr |-> b, int |-> 0, dbl |-> I64(0, 0)]
JS_UNDEFINED == [tag |-> "UNDEFINED", ptr |-> 0, int |-> 0, dbl |-> I64(0, 0)]
JS_NULL == [tag |-> "NULL", ptr |-> 0, int |-> 0, dbl |-> I64(0, 0)]
JS_EXCEPTION == [tag |-> "EXCEPTION", ptr |-> 0, int |-> 0, dbl |-> I64(0, 0)]

\* JS_VALUE_HAS_REF_COUNT: the tags whose payload is a counted heap block
HasRefCount(v) == v.tag \in {"STRING", "OBJECT"}

\* JS_NewInt64: an int32 when the value fits, otherwise the nearest double
JS_NewInt64(v) == IF FitsInt32(v) THEN JSInt(v[2]) ELSE JSFloat(v)

Helper_JS_IsException(v) == v.tag = "EXCEPTION"
Helper_JS_IsInteger(v) == v.tag = "INT"
Helper_JS_IsUndefined(v) == v.tag = "UNDEFINED"

None == [some |-> FALSE, val |-> I64(0, 0)]
Some(v) == [some |-> TRUE, val |-> v]

\* JS_ToInt64 on an INT-tagged value: rc = 0 and the int32 widened
JS_ToInt64(v) == SignExtend(v.int)

is_exception(v) == Helper_JS_IsException(v)
is_integer(v) == Helper_JS_IsInteger(v)
is_undefined(v) == Helper_JS_IsUndefined(v)

as_integer(v) == IF is_integer(v) THEN Some(JS_ToInt64(v)) ELSE None

\* ------------------------------------------------------------ the state
VARIABLES
    runtime,    \* the Runtime: its handle, Rc<RuntimePtr> count, JS_FreeRuntime calls
    contexts,   \* per engine context: Context handle, Rc<ContextPtr> count, frees, pending slot
    heap,       \* per heap block: kind, engine reference count, releases, array slots
    values,     \* bag of the live Value guards
    frames,     \* stack of trampoline invocations in progress
    iter,       \* the ArrayIterator in use
    lastOp      \* the operation just performed and what it returned

vars == <<runtime, contexts, heap, values, frames, iter, lastOp>>

\* a heap block; an object keeps its properties as names and slots
NoBlock == [kind |-> "none", rc |-> 0, freed |-> 0, slots |-> <<>>,
            names |-> <<>>]
NoContext == [born |-> FALSE, handle |-> FALSE, strong |-> 0, ptr |-> FALSE,
              freed |-> 0, pending |-> 0]
NoIter == [active |-> FALSE, array |-> 0, pos |-> 0, probed |-> -1, done |-> FALSE]
NoOp == [op |-> "init", ctx |-> 0, ok |-> TRUE, panic |-> FALSE, oom |-> FALSE,
         val |-> JS_UNDEFINED, in |-> I64(0, 0), args |-> <<>>, calls |-> <<>>,
         other |-> 0, key |-> <<>>, passed |-> <<>>]

\* a panic inside a trampoline cannot unwind through the engine's frames:
\* the process ends there
Aborted == lastOp.panic /\ Len(frames) > 0

Depth == Len(frames)

\* ContextPtr, the handle a Context or a Value holds on an engine context
Owned(c) == [kind |-> "Owned", ctx |-> c]
Borrowed(c) == [kind |-> "Borrowed", ctx |-> c]

\* struct Value { value, context }, with the invocation that holds the guard
Value(v, h, d, r) == [value |-> v, context |-> h, frame |-> d, role |-> r]

Guards == BagToSet(values)
\* the guards the running code can name: those of the innermost invocation
Mine == IF Aborted THEN {} ELSE {g \in Guards : g.frame = Depth}
Room(n) == BagCardinality(values) + n <= MaxValues

AddGuard(bag, g) == bag (+) SetToBag({g})
DelGuard(bag, g) == bag (-) SetToBag({g})

\* number of live guards that wrap block b
GuardsOf(b) ==
    LET S == {g \in Guards : HasRefCount(g.value) /\ g.value.ptr = b}
        RECURSIVE Sum(_)
        Sum(T) == IF T = {} THEN 0
                  ELSE LET g == CHOOSE x \in T : TRUE
                       IN CopiesIn(g, values) + Sum(T \ {g})
    IN Sum(S)

\* ------------------------------------------------- Rc<RuntimePtr>, Rc<ContextPtr>
\* impl Drop for RuntimePtr
RuntimePtrDrop(r) ==
    IF r.ptr THEN [r EXCEPT !.freed = @ + 1, !.ptr = FALSE] ELSE r

\* dropping one Rc<RuntimePtr>
RuntimeRelease(r) ==
    LET r1 == [r EXCEPT !.strong = @ - 1]
    IN IF r1.strong = 0 THEN RuntimePtrDrop(r1) ELSE r1

\* impl Drop for ContextPtr, then its field `runtime: Rc<RuntimePtr>`
ContextPtrDrop(cr, c) ==
    LET cs == IF cr.contexts[c].ptr
              THEN [cr.contexts EXCEPT ![c].freed = @ + 1, ![c].ptr = FALSE]
              ELSE cr.contexts
    IN [contexts |-> cs, runtime |-> RuntimeRelease(cr.runtime)]

\* ContextRelease gone wrong: every release tears the context down
ContextRelease_Eager(cr, c) ==
    ContextPtrDrop([cr EXCEPT !.contexts[c].strong = @ - 1], c)

\* dropping one Rc<ContextPtr>
ContextRelease(cr, c) ==
    LET cr1 == [cr EXCEPT !.contexts[c].strong = @ - 1]
    IN IF cr1.contexts[c].strong = 0 THEN ContextPtrDrop(cr1, c) ELSE cr1

\* ContextClone gone wrong: the handle is copied without counting it
ContextClone_Uncounted(cr, c) == cr

\* cloning one Rc<ContextPtr>: `self.ptr.clone()`
ContextClone(cr, c) == [cr EXCEPT !.contexts[c].strong = @ + 1]

\* ContextPtr::clone: an Owned handle counts, a Borrowed one is a raw pointer
HandleClone(cr, h) ==
    IF h.kind = "Owned" THEN ContextClone(cr, h.ctx) ELSE cr

\* dropping a ContextPtr: only the Owned variant takes part in teardown
HandleDrop(cr, h) ==
    IF h.kind = "Owned" THEN ContextRelease(cr, h.ctx) ELSE cr

CR == [contexts |-> contexts, runtime |-> runtime]

\* the context handles the running code holds: the Context structs of the
\* host at top level, the Borrowed Context of the trampoline inside a call
Handles ==
    IF Aborted THEN {}
    ELSE IF Depth = 0
    THEN {Owned(c) : c \in {x \in Contexts : contexts[x].handle}}
    ELSE {Borrowed(frames[Depth].ctx)}

\* ------------------------------------------------------ the engine heap
FreeBlocks == {b \in Blocks : heap[b].kind = "none"}
NewBlock == CHOOSE b \in FreeBlocks : \A x \in FreeBlocks : b <= x

Alloc(h, b, k) == [h EXCEPT ![b] = [NoBlock EXCEPT !.kind = k, !.rc = 1]]

\* Helper_JS_DupValue
JS_DupValue(h, v) ==
    IF HasRefCount(v) /\ h[v.ptr].freed = 0 THEN [h EXCEPT ![v.ptr].rc = @ + 1] ELSE h

RECURSIVE JS_FreeValue(_, _, _)
RECURSIVE FreeSlots(_, _, _)

\* Helper_JS_FreeValue: decrement, and release through the engine at zero.
\* A block released earlier is dangling: the count read is whatever the
\* memory holds, so the engine frees it a second time (ub) or does not.
JS_FreeValue(h, v, ub) ==
    IF ~HasRefCount(v) THEN h
    ELSE LET b == v.ptr IN
         IF h[b].freed > 0
         THEN IF ub THEN [h EXCEPT ![b].freed = 2] ELSE h
         ELSE IF h[b].rc > 1 THEN [h EXCEPT ![b].rc = @ - 1]
         ELSE FreeSlots([h EXCEPT ![b].rc = 0, ![b].freed = 1, ![b].slots = <<>>,
                                   ![b].names = <<>>],
                        h[b].slots, ub)

\* the engine's free routine releases what the block's slots hold
FreeSlots(h, s, ub) ==
    IF s = <<>> THEN h ELSE FreeSlots(JS_FreeValue(h, Head(s), ub), Tail(s), ub)

Init ==
    /\ runtime = [handle |-> TRUE, strong |-> 1, ptr |-> TRUE, freed |-> 0]
    /\ contexts = [c \in Contexts |-> NoContext]
    /\ heap = [b \in Blocks |-> NoBlock]
    /\ values = EmptyBag
    /\ frames = <<>>
    /\ iter = NoIter
    /\ lastOp = NoOp

\* ------------------------------------------------ Runtime and Context
\* Runtime::context gone wrong: the ContextPtr keeps the raw runtime
\* pointer without a clone of the Rc<RuntimePtr>
RuntimeContext_NoRuntimeClone ==
    /\ Depth = 0
    /\ runtime.handle
    /\ \E c \in Contexts :
        /\ ~contexts[c].born
        /\ \A x \in Contexts : x < c => contexts[x].born
        /\ contexts' = [contexts EXCEPT ![c] =
               [born |-> TRUE, handle |-> TRUE, strong |-> 1, ptr |-> TRUE,
                freed |-> 0, pending |-> 0]]
        /\ lastOp' = [NoOp EXCEPT !.op = "context"]
    /\ UNCHANGED <<runtime, heap, values, frames, iter>>

\* Runtime::context
RuntimeContext ==
    /\ Depth = 0
    /\ runtime.handle
    /\ \E c \in Contexts :
        /\ ~contexts[c].born
        /\ \A x \in Contexts : x < c => contexts[x].born
        /\ contexts' = [contexts EXCEPT ![c] =
               [born |-> TRUE, handle |-> TRUE, strong |-> 1, ptr |-> TRUE,
                freed |-> 0, pending |-> 0]]
        /\ runtime' = [runtime EXCEPT !.strong = @ + 1]
        /\ lastOp' = [NoOp EXCEPT !.op = "context"]
    /\ UNCHANGED <<heap, values, frames, iter>>

\* the Runtime goes out of scope
RuntimeDrop ==
    /\ Depth = 0
    /\ runtime.handle
    /\ runtime' = RuntimeRelease([runtime EXCEPT !.handle = FALSE])
    /\ lastOp' = [NoOp EXCEPT !.op = "drop_runtime"]
    /\ UNCHANGED <<contexts, heap, values, frames, iter>>

\* a Context goes out of scope
ContextDrop ==
    /\ Depth = 0
    /\ \E c \in Contexts :
        /\ contexts[c].handle
        /\ LET cr == ContextRelease([CR EXCEPT !.contexts[c].handle = FALSE], c)
           IN /\ contexts' = cr.contexts
              /\ runtime' = cr.runtime
        /\ lastOp' = [NoOp EXCEPT !.op = "drop_context"]
    /\ UNCHANGED <<heap, values, frames, iter>>

\* ------------------------------------------------------ constructors
\* the guard every constructor builds: Value { value, context: self.ptr.clone() }
NewGuard(v, h, op) ==
    /\ Room(1)
    /\ values' = AddGuard(values, Value(v, h, Depth, "own"))
    /\ LET cr == HandleClone(CR, h)
       IN /\ contexts' = cr.contexts
          /\ runtime' = cr.runtime
    /\ lastOp' = [op EXCEPT !.val = v]

\* Context::string
ContextString ==
    /\ FreeBlocks # {}
    /\ \E h \in Handles :
        /\ NewGuard(JSPtr("STRING", NewBlock), h, [NoOp EXCEPT !.op = "string"])
        /\ heap' = Alloc(heap, NewBlock, "string")
    /\ UNCHANGED <<frames, iter>>

\* Context::integer
ContextInteger ==
    /\ \E h \in Handles, v \in SmallIntegers :
        NewGuard(JS_NewInt64(v), h, [NoOp EXCEPT !.op = "integer", !.in = v])
    /\ UNCHANGED <<heap, frames, iter>>

\* Context::integer over the whole width of its argument
ContextInteger64 ==
    /\ \E h \in Handles, v \in IntegerInputs :
        NewGuard(JS_NewInt64(v), h, [NoOp EXCEPT !.op = "integer", !.in = v])
    /\ UNCHANGED <<heap, frames, iter>>

\* Context::object; JS_NewObject yields the exception sentinel when it fails
ContextObject ==
    /\ FreeBlocks # {}
    /\ \E h \in Handles, fails \in BOOLEAN :
        IF fails
        THEN /\ NewGuard(JS_EXCEPTION, h, [NoOp EXCEPT !.op = "object", !.ok = FALSE, !.oom = TRUE])
             /\ heap' = heap
        ELSE /\ NewGuard(JSPtr("OBJECT", NewBlock), h, [NoOp EXCEPT !.op = "object"])
             /\ heap' = Alloc(heap, NewBlock, "object")
    /\ UNCHANGED <<frames, iter>>

\* Context::function
ContextFunction ==
    /\ FreeBlocks # {}
    /\ \E h \in Handles :
        /\ NewGuard(JSPtr("OBJECT", NewBlock), h, [NoOp EXCEPT !.op = "function"])
        /\ heap' = Alloc(heap, NewBlock, "function")
    /\ UNCHANGED <<frames, iter>>

\* ------------------------------------------------------------- Value
\* impl Clone for Value
ValueClone ==
    /\ Room(1)
    /\ \E g \in Mine :
        /\ values' = AddGuard(values, Value(g.value, g.context, Depth, "own"))
        /\ heap' = JS_DupValue(heap, g.value)
        /\ LET cr == HandleClone(CR, g.context)
           IN /\ contexts' = cr.contexts
              /\ runtime' = cr.runtime
        /\ lastOp' = [NoOp EXCEPT !.op = "clone"]
    /\ UNCHANGED <<frames, iter>>

\* a guard the running code may let go: not the slice the trampoline lends,
\* not the Array an iterator borrows
Droppable(g) ==
    /\ g.role = "own"
    /\ ~(iter.active /\ HasRefCount(g.value) /\ g.value.ptr = iter.array
         /\ CopiesIn(g, values) = 1
         /\ \A x \in Guards : (HasRefCount(x.value) /\ x.value.ptr = iter.array) => x = g)

\* impl Drop for Value, then its field `context`
ValueDrop ==
    /\ \E g \in Mine, ub \in BOOLEAN :
        /\ Droppable(g)
        /\ ub => (HasRefCount(g.value) /\ heap[g.value.ptr].freed > 0)
        /\ values' = DelGuard(values, g)
        /\ heap' = JS_FreeValue(heap, g.value, ub)
        /\ LET cr == HandleDrop(CR, g.context)
           IN /\ contexts' = cr.contexts
              /\ runtime' = cr.runtime
        /\ lastOp' = [NoOp EXCEPT !.op = "drop"]
    /\ UNCHANGED <<frames, iter>>

\* ContextPtr::as_ptr: the raw engine context behind either variant
as_ptr(h) == h.ctx

\* the union JSValue.u read through its member ptr
u_ptr(v) ==
    IF HasRefCount(v) THEN v.ptr
    ELSE IF v.tag = "INT" THEN v.int
    ELSE IF v.tag = "FLOAT64" THEN v.dbl
    ELSE 0

\* impl PartialEq for Value: the third conjunct reads self on both sides
eq(self, other) ==
    /\ as_ptr(self.context) = as_ptr(other.context)
    /\ self.value.tag = other.value.tag
    /\ u_ptr(self.value) = u_ptr(self.value)

\* a == b on two guards the running code holds
ValueEq ==
    /\ \E a \in Mine, b \in Mine :
        lastOp' = [NoOp EXCEPT !.op = "eq", !.ctx = as_ptr(a.context),
                               !.other = as_ptr(b.context), !.val = a.value,
                               !.args = <<b.value>>, !.ok = eq(a, b)]
    /\ UNCHANGED <<runtime, contexts, heap, values, frames, iter>>

\* ------------------------------------------------------------- Array
IsArray(g) ==
    /\ g.value.tag = "OBJECT"
    /\ heap[g.value.ptr].kind = "array"
    /\ heap[g.value.ptr].freed = 0

Undefineds(n) == [i \in 1..n |-> JS_UNDEFINED]

\* JS_SetPropertyUint32 on an array: stores val in slot idx (the engine takes
\* over the caller's reference, and releases the value the slot held)
JS_SetPropertyUint32(h, a, idx, v, ub) ==
    LET s == h[a].slots
    IN IF idx < Len(s)
       THEN JS_FreeValue([h EXCEPT ![a].slots[idx + 1] = v], s[idx + 1], ub)
       ELSE [h EXCEPT ![a].slots = s \o Undefineds(idx - Len(s)) \o <<v>>]

\* what JS_SetPropertyUint32 returns: -1 on an exception, TRUE when the
\* slot was written; writing a slot of an array does not throw
SetPropertyResult(h, a) == IF h[a].kind = "array" THEN 1 ELSE -1

\* Array::set(index, val): the engine call, the comparison of its result,
\* then the drop of the guard `val` that was passed by value
Array_set(h, a, idx, v, ub) ==
    [heap |-> JS_FreeValue(JS_SetPropertyUint32(h, a, idx, v, ub), v, ub),
     ret |-> (SetPropertyResult(h, a) = 0)]

\* JS_GetPropertyUint32: a new reference to the slot, undefined past the end
JS_GetPropertyUint32(h, a, idx) ==
    IF idx < Len(h[a].slots) THEN h[a].slots[idx + 1] ELSE JS_UNDEFINED

\* Array::len: the length property converted by as_integer
Array_len(h, a) == as_integer(JSInt(Len(h[a].slots)))

\* the loop of Context::array: assert!(ary.set(i, v.clone())) for each value
RECURSIVE Populate(_, _, _, _, _)
Populate(h, a, vals, i, ub) ==
    IF i >= Len(vals) THEN [heap |-> h, ok |-> TRUE]
    ELSE LET r == Array_set(JS_DupValue(h, vals[i + 1]), a, i, vals[i + 1], ub)
         IN IF r.ret THEN Populate(r.heap, a, vals, i + 1, ub)
            ELSE [heap |-> r.heap, ok |-> FALSE]

ValueSeqs == UNION {[1..n -> {g.value : g \in Mine}] : n \in 0..MaxLen}

\* Context::array
ContextArray ==
    /\ FreeBlocks # {}
    /\ \E h \in Handles, fails \in BOOLEAN, vals \in ValueSeqs, ub \in BOOLEAN :
        LET a == NewBlock
            p == Populate(Alloc(heap, a, "array"), a, vals, 0, ub)
            op == [NoOp EXCEPT !.op = "array", !.args = vals]
        IN IF fails
           THEN \* JS_NewArray failed: Err(val)
                /\ vals = <<>> /\ ~ub
                /\ NewGuard(JS_EXCEPTION, h, [op EXCEPT !.ok = FALSE, !.oom = TRUE])
                /\ heap' = heap
           ELSE IF p.ok
           THEN \* Ok(ary)
                /\ NewGuard(JSPtr("OBJECT", a), h, op)
                /\ heap' = p.heap
           ELSE \* the assert! failed: the panic unwinds and drops `ary`
                /\ heap' = JS_FreeValue(p.heap, JSPtr("OBJECT", a), ub)
                /\ lastOp' = [op EXCEPT !.ok = FALSE, !.panic = TRUE]
                /\ UNCHANGED <<values, contexts, runtime>>
    /\ UNCHANGED <<frames, iter>>

\* Array::set
ArraySet ==
    /\ \E a \in Mine, g \in Mine, idx \in 0..(MaxLen - 1), ub \in BOOLEAN :
        /\ IsArray(a)
        /\ Droppable(g)
        /\ (g = a) => CopiesIn(g, values) > 1
        /\ LET r == Array_set(heap, a.value.ptr, idx, g.value, ub)
               cr == HandleDrop(CR, g.context)
           IN /\ heap' = r.heap
              /\ values' = DelGuard(values, g)
              /\ contexts' = cr.contexts
              /\ runtime' = cr.runtime
              /\ lastOp' = [NoOp EXCEPT !.op = "set", !.ok = r.ret]
    /\ UNCHANGED <<frames, iter>>

\* Array::get
ArrayGet ==
    /\ \E a \in Mine, idx \in 0..MaxLen :
        /\ IsArray(a)
        /\ LET v == JS_GetPropertyUint32(heap, a.value.ptr, idx)
           IN /\ NewGuard(v, a.context, [NoOp EXCEPT !.op = "get", !.in = SignExtend(idx)])
              /\ heap' = JS_DupValue(heap, v)
    /\ UNCHANGED <<frames, iter>>

\* ------------------------------------------------------------ Object
IsObject(g) ==
    /\ g.value.tag = "OBJECT"
    /\ heap[g.value.ptr].kind = "object"
    /\ heap[g.value.ptr].freed = 0

\* the byte that ends a C string
NUL == 0

\* the keys the host passes, as the bytes of a &str: "a", "b" and "a\0b"
Keys == { <<97>>, <<98>>, <<97, NUL, 98>> }

\* key.as_bytes().to_vec() followed by push(0)
cstr(key) == key \o <<NUL>>

\* the name the engine reads at cstr.as_ptr(): the bytes before the first NUL
RECURSIVE CName(_)
CName(bytes) ==
    IF Head(bytes) = NUL THEN <<>> ELSE <<Head(bytes)>> \o CName(Tail(bytes))

\* position of a property name in the object's property list, 0 when absent
RECURSIVE FindName(_, _, _)
FindName(names, n, i) ==
    IF i > Len(names) THEN 0
    ELSE IF names[i] = n THEN i
    ELSE FindName(names, n, i + 1)

\* JS_SetPropertyStr on a plain object: stores val under the name read from
\* the C string (the engine takes over the caller's reference, and releases
\* the value the property held)
JS_SetPropertyStr(h, o, bytes, v, ub) ==
    LET n == CName(bytes)
        i == FindName(h[o].names, n, 1)
    IN IF i > 0
       THEN JS_FreeValue([h EXCEPT ![o].slots[i] = v], h[o].slots[i], ub)
       ELSE [h EXCEPT ![o].names = Append(@, n), ![o].slots = Append(@, v)]

\* JS_GetPropertyStr: the property's value, undefined when there is none
JS_GetPropertyStr(h, o, bytes) ==
    LET i == FindName(h[o].names, CName(bytes), 1)
    IN IF i > 0 THEN h[o].slots[i] ELSE JS_UNDEFINED

\* Object::set(key, val): the value is duplicated for the engine, the result
\* is tested with >= 0, then the guard `val` passed by value is dropped.
\* When the engine throws (-1) it has released the value it was given.
Object_set(h, o, key, v, fails, ub) ==
    LET d == JS_DupValue(h, v)
        e == IF fails THEN JS_FreeValue(d, v, ub)
             ELSE JS_SetPropertyStr(d, o, cstr(key), v, ub)
        r == IF fails THEN -1 ELSE 1
    IN [heap |-> JS_FreeValue(e, v, ub), ret |-> (r >= 0)]

\* Object::set
ObjectSet ==
    /\ \E o \in Mine, g \in Mine, key \in Keys, fails \in BOOLEAN, ub \in BOOLEAN :
        /\ IsObject(o)
        /\ Droppable(g)
        /\ g # o
        /\ as_ptr(g.context) = as_ptr(o.context)
        \* the values stored are scalars and strings; what the engine does
        \* with a stored sentinel is left out
        /\ ~is_exception(g.value)
        /\ g.value.tag # "OBJECT"
        /\ ub => (HasRefCount(g.value) /\ heap[g.value.ptr].freed > 0)
        /\ LET r == Object_set(heap, o.value.ptr, key, g.value, fails, ub)
               cr == HandleDrop(CR, g.context)
           IN /\ heap' = r.heap
              /\ values' = DelGuard(values, g)
              /\ contexts' = cr.contexts
              /\ runtime' = cr.runtime
              /\ lastOp' = [NoOp EXCEPT !.op = "oset", !.ok = r.ret,
                                        !.val = g.value, !.key = key,
                                        !.other = o.value.ptr]
    /\ UNCHANGED <<frames, iter>>

\* Object::get(key): Ok with the engine's value, Err when it is the
\* exception sentinel
ObjectGet ==
    /\ \E o \in Mine, key \in Keys, fails \in BOOLEAN :
        /\ IsObject(o)
        /\ LET v == IF fails THEN JS_EXCEPTION
                    ELSE JS_GetPropertyStr(heap, o.value.ptr, cstr(key))
           IN /\ NewGuard(v, o.context,
                          [NoOp EXCEPT !.op = "oget", !.ok = ~is_exception(v),
                                       !.oom = fails, !.key = key,
                                       !.other = o.value.ptr])
              /\ heap' = JS_DupValue(heap, v)
    /\ UNCHANGED <<frames, iter>>

\* Array::iter; one iterator is in use at a time
ArrayIter ==
    /\ Depth = 0
    /\ ~iter.active
    /\ \E a \in Mine :
        /\ IsArray(a)
        /\ iter' = [NoIter EXCEPT !.active = TRUE, !.array = a.value.ptr]
        /\ lastOp' = [NoOp EXCEPT !.op = "iter"]
    /\ UNCHANGED <<runtime, contexts, heap, values, frames>>

\* ArrayIterator::next as one turn of `for v in ary.iter()`: the probe of
\* index `pos as u32`, and the drop of the yielded guard at the end of the
\* turn.  pos has PosBits bits here.
ArrayIteratorNext ==
    /\ Depth = 0
    /\ iter.active /\ ~iter.done
    /\ heap[iter.array].freed = 0
    /\ \E ub \in BOOLEAN :
        LET v == JS_GetPropertyUint32(heap, iter.array, iter.pos)
        IN IF is_exception(v)
           THEN /\ iter' = [iter EXCEPT !.done = TRUE, !.probed = iter.pos]
                /\ heap' = heap
                /\ lastOp' = [NoOp EXCEPT !.op = "next", !.ok = FALSE, !.val = v]
           ELSE /\ iter' = [iter EXCEPT !.pos = (@ + 1) % (2 ^ PosBits),
                                        !.probed = iter.pos]
                /\ heap' = JS_FreeValue(JS_DupValue(heap, v), v, ub)
                /\ lastOp' = [NoOp EXCEPT !.op = "next", !.val = v]
    /\ UNCHANGED <<runtime, contexts, values, frames>>

\* the iterator goes out of scope
IterDrop ==
    /\ Depth = 0
    /\ iter.active
    /\ iter' = NoIter
    /\ lastOp' = [NoOp EXCEPT !.op = "drop_iter"]
    /\ UNCHANGED <<runtime, contexts, heap, values, frames>>

\* -------------------------------------------------------------- eval
\* JS_GetException: hands over what the pending slot holds and empties it
JS_GetException(p) == IF p = 0 THEN JS_NULL ELSE JSPtr("OBJECT", p)

\* eval gone wrong: the sentinel-tagged result is released before the
\* pending exception is fetched
eval_FreeFirst(v, p) ==
    IF is_exception(v)
    THEN [ok |-> FALSE, val |-> JS_GetException(p), pending |-> 0,
          calls |-> <<"JS_Eval", "JS_FreeValue", "JS_GetException">>]
    ELSE [ok |-> TRUE, val |-> v, pending |-> p, calls |-> <<"JS_Eval">>]

\* eval gone wrong: the Err carries the sentinel itself
eval_ErrSentinel(v, p) ==
    IF is_exception(v)
    THEN [ok |-> FALSE, val |-> v, pending |-> p, calls |-> <<"JS_Eval">>]
    ELSE [ok |-> TRUE, val |-> v, pending |-> p, calls |-> <<"JS_Eval">>]

\* Context::eval after JS_Eval returned v with p in the pending slot: the
\* Result, the slot afterwards, and the engine calls made on the context
eval(v, p) ==
    IF is_exception(v)
    THEN [ok |-> FALSE, val |-> JS_GetException(p), pending |-> 0,
          calls |-> <<"JS_Eval", "JS_GetException", "JS_FreeValue">>]
    ELSE [ok |-> TRUE, val |-> v, pending |-> p, calls |-> <<"JS_Eval">>]

\* Context::eval; the source either runs (a module evaluates to undefined)
\* or does not parse, and then the engine stores a SyntaxError object in
\* the pending slot and returns the sentinel
ContextEval ==
    /\ Depth = 0
    /\ Room(1)
    /\ \E c \in Contexts, valid \in BOOLEAN :
        /\ contexts[c].handle
        /\ ~valid => FreeBlocks # {}
        /\ LET v == IF valid THEN JS_UNDEFINED ELSE JS_EXCEPTION
               p == IF valid THEN contexts[c].pending ELSE NewBlock
               r == eval(v, p)
               cr == HandleClone([CR EXCEPT !.contexts[c].pending = r.pending], Owned(c))
           IN /\ heap' = IF valid THEN heap ELSE Alloc(heap, NewBlock, "error")
              /\ values' = AddGuard(values, Value(r.val, Owned(c), 0, "own"))
              /\ contexts' = cr.contexts
              /\ runtime' = cr.runtime
              /\ lastOp' = [NoOp EXCEPT !.op = "eval", !.ctx = c, !.ok = r.ok,
                                        !.val = r.val, !.calls = r.calls,
                                        !.args = <<v>>]
    /\ UNCHANGED <<frames, iter>>

\* ------------------------------------------- Value::call and wrap_fn
IsFunction(g) ==
    /\ g.value.tag = "OBJECT"
    /\ heap[g.value.ptr].kind = "function"
    /\ heap[g.value.ptr].freed = 0

RECURSIVE DupAll(_, _)
DupAll(h, vs) == IF vs = <<>> THEN h ELSE DupAll(JS_DupValue(h, Head(vs)), Tail(vs))

RECURSIVE FreeAll(_, _, _)
FreeAll(h, vs, ub) ==
    IF vs = <<>> THEN h ELSE FreeAll(JS_FreeValue(h, Head(vs), ub), Tail(vs), ub)

RECURSIVE AddArgs(_, _, _, _)
AddArgs(bag, vs, h, d) ==
    IF vs = <<>> THEN bag
    ELSE AddArgs(AddGuard(bag, Value(Head(vs), h, d, "arg")), Tail(vs), h, d)

RECURSIVE DelArgs(_, _, _, _)
DelArgs(bag, vs, h, d) ==
    IF vs = <<>> THEN bag
    ELSE DelArgs(DelGuard(bag, Value(Head(vs), h, d, "arg")), Tail(vs), h, d)

\* the trampoline gone wrong: the raw context is wrapped as an owning handle
ValueCall_OwnedContext ==
    /\ Depth < MaxDepth
    /\ \E f \in Mine, this \in Mine, args \in ValueSeqs :
        /\ IsFunction(f)
        /\ Droppable(this)
        /\ (this = f) => CopiesIn(f, values) > 1
        /\ Room(Len(args))
        /\ LET c == f.context.ctx
               b == Owned(c)
               d == Depth + 1
           IN /\ heap' = JS_DupValue(DupAll(heap, args), this.value)
              /\ values' = AddArgs(AddGuard(DelGuard(values, this),
                                            Value(this.value, b, d, "own")),
                                   args, b, d)
              /\ frames' = Append(frames, [ctx |-> c, fn |-> f.context,
                                           this |-> this, args |-> args])
              /\ lastOp' = [NoOp EXCEPT !.op = "call"]
    /\ UNCHANGED <<runtime, contexts, iter>>

\* Value::call up to the engine's entry into the registered function, and
\* the head of the wrap_fn trampoline: every argument and the receiver are
\* duplicated for JS_Call; the trampoline wraps the raw context as Borrowed
\* and the raw receiver and arguments as Values, without duplicating them
ValueCall ==
    /\ Depth < MaxDepth
    /\ \E f \in Mine, this \in Mine, args \in ValueSeqs :
        /\ IsFunction(f)
        /\ Droppable(this)
        /\ (this = f) => CopiesIn(f, values) > 1
        /\ Room(Len(args))
        /\ LET c == f.context.ctx
               b == Borrowed(c)
               d == Depth + 1
           IN /\ heap' = JS_DupValue(DupAll(heap, args), this.value)
              /\ values' = AddArgs(AddGuard(DelGuard(values, this),
                                            Value(this.value, b, d, "own")),
                                   args, b, d)
              /\ frames' = Append(frames, [ctx |-> c, fn |-> f.context,
                                           this |-> this, args |-> args])
              /\ lastOp' = [NoOp EXCEPT !.op = "call"]
    /\ UNCHANGED <<runtime, contexts, iter>>

\* the tail of the trampoline and of Value::call: the closure returns ret;
\* its payload is copied out and the guard destructed, then the argument
\* vector and the Borrowed context; call wraps the engine's result with a
\* clone of the callee's handle and drops the receiver it was given
TrampolineReturn ==
    /\ Depth > 0
    /\ ~Aborted
    /\ \E ret \in Mine, ub \in BOOLEAN :
        LET fr == frames[Depth]
            b == Borrowed(fr.ctx)
            rest == DelArgs(DelGuard(values, ret), fr.args, b, Depth)
            h1 == FreeAll(heap, fr.args, ub)
            h2 == JS_FreeValue(h1, ret.value, ub)
            cr1 == HandleDrop(CR, ret.context)
            cr2 == HandleClone(cr1, fr.fn)
            cr3 == HandleDrop(cr2, fr.this.context)
        IN /\ ret.role = "own"
           /\ \A g \in BagToSet(rest) : g.frame < Depth
           /\ heap' = JS_FreeValue(h2, fr.this.value, ub)
           /\ values' = AddGuard(rest, Value(ret.value, fr.fn, Depth - 1, "own"))
           /\ contexts' = cr3.contexts
           /\ runtime' = cr3.runtime
           /\ frames' = SubSeq(frames, 1, Depth - 1)
           /\ lastOp' = [NoOp EXCEPT !.op = "return"]
    /\ UNCHANGED iter

\* Value::call, lines 160-163: the raw arguments, collected in order
call_argv(args) == [i \in 1..Len(args) |-> args[i]]

\* wrap_fn, lines 330-339: argv[0 .. argc) wrapped and pushed in order
wrap_fn_args_Reversed(argc, argv) == [idx \in 1..argc |-> argv[argc + 1 - idx]]

wrap_fn_args(argc, argv) == [idx \in 1..argc |-> argv[idx]]

\* tests::test_func2: ctx.integer(args[0].as_integer().unwrap() +
\* args[1].as_integer().unwrap()); indexing and unwrap panic
test_func2(args) ==
    IF Len(args) >= 2 /\ as_integer(args[1]).some /\ as_integer(args[2]).some
    THEN [panic |-> FALSE,
          val |-> JS_NewInt64(Add64(as_integer(args[1]).val, as_integer(args[2]).val))]
    ELSE [panic |-> TRUE, val |-> JS_UNDEFINED]

\* Context::integer on the inputs of a summing function
ContextInteger32 ==
    /\ \E h \in Handles, v \in SumInputs :
        NewGuard(JS_NewInt64(v), h, [NoOp EXCEPT !.op = "integer", !.in = v])
    /\ UNCHANGED <<heap, frames, iter>>

\* the argument lists handed to a function of two arguments: values the host
\* holds, the integers among them being inputs and not earlier sums
SumArgs ==
    LET held == {g.value : g \in Mine}
        inputs == {v \in held : is_integer(v) => JS_ToInt64(v) \in SumInputs}
    IN UNION {[1..n -> inputs] : n \in 1..3}

\* f.call(this, args) on a function registered as wrap_fn!(_, test_func2),
\* from the call to its return: Value::call duplicates the arguments and the
\* receiver and enters the trampoline through JS_Call; the trampoline wraps
\* them, runs test_func2, which drops the receiver it is given, copies the
\* payload out of the returned Value and drops it and the argument vector;
\* call wraps the engine's result and drops the receiver it was given.
\* A panic inside the trampoline ends the process in the invocation.
ValueCallSum ==
    /\ Depth = 0
    /\ \E f \in Mine, this \in Mine, args \in SumArgs, ub \in BOOLEAN :
        LET c == as_ptr(f.context)
            argv == call_argv(args)
            argc == Len(argv)
            h1 == JS_DupValue(DupAll(heap, args), this.value)
            seen == wrap_fn_args(argc, argv)
            r == test_func2(seen)
            h2 == JS_FreeValue(h1, this.value, ub)
            h3 == JS_FreeValue(FreeAll(h2, seen, ub), r.val, ub)
            ret == r.val
            cr == HandleDrop(HandleClone(CR, f.context), this.context)
            op == [NoOp EXCEPT !.op = "callsum", !.passed = args, !.args = seen]
        IN /\ IsFunction(f)
           /\ Droppable(this)
           /\ (this = f) => CopiesIn(f, values) > 1
           /\ IF r.panic
              THEN /\ heap' = h1
                   /\ frames' = Append(frames, [ctx |-> c, fn |-> f.context,
                                                this |-> this, args |-> args])
                   /\ lastOp' = [op EXCEPT !.ok = FALSE, !.panic = TRUE]
                   /\ UNCHANGED <<values, contexts, runtime>>
              ELSE /\ heap' = JS_FreeValue(h3, this.value, ub)
                   /\ values' = AddGuard(DelGuard(values, this),
                                         Value(ret, f.context, Depth, "own"))
                   /\ contexts' = cr.contexts
                   /\ runtime' = cr.runtime
                   /\ lastOp' = [op EXCEPT !.val = ret]
                   /\ UNCHANGED frames
    /\ UNCHANGED iter

\* ------------------------------------------------------ specifications
\* Ownership: the Runtime, its Contexts and the Values built from them
Next ==
    \/ RuntimeContext
    \/ RuntimeDrop
    \/ ContextDrop
    \/ ContextString
    \/ ContextEval
    \/ ValueClone
    \/ ValueDrop

Spec == Init /\ [][Next]_vars

\* The trampoline: callable Values, Value::call, Borrowed handles
NextTrampoline ==
    \/ RuntimeContext
    \/ RuntimeDrop
    \/ ContextDrop
    \/ ContextFunction
    \/ ValueClone
    \/ ValueDrop
    \/ ValueCall
    \/ TrampolineReturn

SpecTrampoline == Init /\ [][NextTrampoline]_vars

\* The heap: guards on strings, objects and arrays through clone and drop
NextHeap ==
    \/ RuntimeContext
    \/ ContextDrop
    \/ ContextString
    \/ ContextObject
    \/ ContextArray
    \/ ValueClone
    \/ ValueDrop

SpecHeap == Init /\ [][NextHeap]_vars

\* Integer construction and conversion over the 64-bit inputs
NextInteger ==
    \/ RuntimeContext
    \/ ContextInteger64
    \/ ValueDrop

SpecInteger == Init /\ [][NextInteger]_vars

\* Equality of Values across contexts, tags and heap blocks
NextEq ==
    \/ RuntimeContext
    \/ ContextString
    \/ ContextInteger
    \/ ValueClone
    \/ ValueDrop
    \/ ValueEq

SpecEq == Init /\ [][NextEq]_vars

\* Objects: keyed stores and reads of integers and strings
NextObject ==
    \/ RuntimeContext
    \/ ContextObject
    \/ ContextInteger
    \/ ContextString
    \/ ObjectSet
    \/ ObjectGet
    \/ ValueDrop

SpecObject == Init /\ [][NextObject]_vars

\* Calls of a registered function that sums its two arguments
NextCall ==
    \/ RuntimeContext
    \/ ContextFunction
    \/ ContextInteger32
    \/ ValueCallSum
    \/ ValueDrop

SpecCall == Init /\ [][NextCall]_vars

\* Stores of strings into arrays
NextStore ==
    \/ RuntimeContext
    \/ ContextString
    \/ ContextArray
    \/ ArraySet
    \/ ValueClone
    \/ ValueDrop

SpecStore == Init /\ [][NextStore]_vars

\* Arrays of integers: construction, indexed access, iteration
NextArray ==
    \/ RuntimeContext
    \/ ContextInteger
    \/ ContextArray
    \/ ArraySet
    \/ ArrayGet
    \/ ArrayIter
    \/ ArrayIteratorNext
    \/ IterDrop
    \/ ValueDrop

SpecArray == Init /\ [][NextArray]_vars

\* a `for` loop over the iterator keeps calling next()
FairSpecArray == SpecArray /\ WF_vars(ArrayIteratorNext)

\* -------------------------------------------------------------- claims
AllocatedBlocks == {b \in Blocks : heap[b].kind # "none"}
BornContexts == {c \in Contexts : contexts[c].born}

\* number of guards whose handle is h
HoldersOf(h) ==
    LET S == {g \in Guards : g.context = h}
        RECURSIVE Sum(_)
        Sum(T) == IF T = {} THEN 0
                  ELSE LET g == CHOOSE x \in T : TRUE
                       IN CopiesIn(g, values) + Sum(T \ {g})
    IN Sum(S)

\* receivers parked in Value::call frames that hold handle h
ReceiversOf(h) == Cardinality({i \in 1..Len(frames) : frames[i].this.context = h})

\* C1: the reference count of every heap block equals the number of live
\* guards wrapping it, a block is released exactly when that count is zero
\* and at most once, and no live guard wraps a released block.
C1_RefcountMatchesGuards ==
    \A b \in AllocatedBlocks :
        /\ heap[b].freed <= 1
        /\ (heap[b].freed = 1) <=> (heap[b].rc = 0)
        /\ heap[b].freed = 0 => heap[b].rc = GuardsOf(b)
        /\ GuardsOf(b) > 0 => heap[b].freed = 0

\* C2: every live Value created through an owning Context refers to an
\* engine context that has not been freed.
C2_ValuesKeepContextAlive ==
    \A g \in Guards :
        g.context.kind = "Owned" =>
            /\ contexts[g.context.ctx].ptr
            /\ contexts[g.context.ctx].freed = 0

\* a Value outlives the Context handle it was created from
C2_Witness ==
    \E g \in Guards :
        /\ g.context.kind = "Owned"
        /\ ~contexts[g.context.ctx].handle
        /\ lastOp.op = "drop_context"

\* C3: the engine runtime is freed at most once, only after the Runtime
\* handle and every Context created from it are gone and their engine
\* contexts freed, exactly once when they all are, and a Context that is
\* still held has a live engine context and a live runtime to evaluate in.
C3_RuntimeFreedOnceAfterContexts ==
    /\ runtime.freed <= 1
    /\ runtime.freed = 1 =>
          /\ ~runtime.handle
          /\ \A c \in BornContexts : contexts[c].freed = 1 /\ contexts[c].strong = 0
    /\ (~runtime.handle /\ \A c \in BornContexts : contexts[c].strong = 0)
          => runtime.freed = 1
    /\ \A c \in BornContexts :
          contexts[c].handle => (contexts[c].ptr /\ runtime.ptr /\ runtime.freed = 0)

\* eval has just run in a Context whose Runtime handle was dropped before,
\* with a second Context of the same Runtime around
C3_Witness ==
    /\ lastOp.op = "eval"
    /\ ~runtime.handle
    /\ runtime.freed = 0
    /\ Cardinality(BornContexts) >= 2

\* C4: an engine context is freed at most once; it is freed exactly when
\* its last owning handle (the Context, a Value built from it, a receiver
\* handed to Value::call) is released; Borrowed handles are not counted,
\* and no step that ends inside a trampoline frees a context.
C4_ContextFreedOnceByOwners ==
    /\ [](\A c \in BornContexts :
            /\ contexts[c].freed <= 1
            /\ contexts[c].strong =
                   (IF contexts[c].handle THEN 1 ELSE 0)
                   + HoldersOf(Owned(c)) + ReceiversOf(Owned(c))
            /\ (contexts[c].freed = 1) <=> (contexts[c].strong = 0))
    /\ [][Len(frames') > 0 =>
            \A c \in Contexts : contexts'[c].freed = contexts[c].freed]_vars

\* a trampoline invoked from inside a trampoline has returned, and Values
\* with Borrowed handles are live in the outer invocation
C4_Witness ==
    /\ lastOp.op = "return"
    /\ Len(frames) = 1
    /\ \E g \in Guards : g.context.kind = "Borrowed" /\ g.frame = 1
    /\ \A c \in BornContexts : contexts[c].freed = 0

\* C5 as stated: dropping a Value never destroys its engine context.
C5_DropNeverFreesContext ==
    [][lastOp'.op = "drop" =>
          \A c \in Contexts : contexts'[c].freed = contexts[c].freed]_vars

\* C5 amended: dropping a Value destroys an engine context only when the
\* Context handle is gone and that Value holds the last counted handle on
\* it; while the Context or another Value of it is live, it does not.
C5_DropFreesOnlyAsLastHolder ==
    [][lastOp'.op = "drop" =>
          \A c \in Contexts :
              /\ (contexts[c].handle \/ HoldersOf(Owned(c)) >= 2)
                     => contexts'[c].freed = contexts[c].freed
              /\ contexts'[c].freed # contexts[c].freed
                     => /\ ~contexts[c].handle
                        /\ HoldersOf(Owned(c)) = 1
                        /\ contexts[c].freed = 0
                        /\ contexts'[c].freed = 1]_vars

\* the last Value of a Context whose handle was dropped has been dropped
C5_Witness ==
    /\ lastOp.op = "drop"
    /\ \E c \in BornContexts :
          /\ contexts[c].freed = 1
          /\ HoldersOf(Owned(c)) = 0
          /\ ~contexts[c].handle

\* C6: when JS_Eval returns the sentinel, the first engine call eval makes
\* on the context afterwards is JS_GetException, and the Err carries the
\* object that was pending; otherwise eval returns the result as Ok and
\* does not read or change the pending slot.
C6_ExceptionFetchedFirst ==
    [][lastOp'.op = "eval" =>
          LET v == lastOp'.args[1]
              c == lastOp'.ctx
          IN IF is_exception(v)
             THEN /\ ~lastOp'.ok
                  /\ lastOp'.calls[1] = "JS_Eval"
                  /\ lastOp'.calls[2] = "JS_GetException"
                  /\ lastOp'.val = JSPtr("OBJECT", NewBlock)
                  /\ heap'[NewBlock].kind = "error"
                  /\ contexts'[c].pending = 0
             ELSE /\ lastOp'.ok
                  /\ lastOp'.val = v
                  /\ \A i \in 1..Len(lastOp'.calls) : lastOp'.calls[i] # "JS_GetException"
                  /\ contexts'[c].pending = contexts[c].pending]_vars

\* eval has returned Err after the engine returned the sentinel
C6_Witness ==
    /\ lastOp.op = "eval"
    /\ is_exception(lastOp.args[1])
    /\ Len(lastOp.calls) = 3

\* C7 as stated: the Value carried by the Err of a failed eval satisfies
\* is_exception().
C7_ErrIsException ==
    (lastOp.op = "eval" /\ ~lastOp.ok) => is_exception(lastOp.val)

\* C7 amended: the Err of a failed eval carries the pending exception
\* object, an object-tagged Value on which is_exception() is false.
C7_ErrIsPendingObject ==
    (lastOp.op = "eval" /\ is_exception(lastOp.args[1])) =>
        /\ ~lastOp.ok
        /\ ~is_exception(lastOp.val)
        /\ lastOp.val.tag = "OBJECT"
        /\ heap[lastOp.val.ptr].kind = "error"

\* source that does not parse has been evaluated
C7_Witness ==
    /\ lastOp.op = "eval"
    /\ ~lastOp.ok
    /\ lastOp.val.tag = "OBJECT"

\* C8: for every 64-bit v, Context::integer(v) satisfies is_integer() and
\* as_integer() returns v.
C8_IntegerRoundTrip ==
    lastOp.op = "integer" =>
        /\ is_integer(lastOp.val)
        /\ as_integer(lastOp.val) = Some(lastOp.in)

\* C9: Context::array over n integer Values (the engine having allocated
\* the array) returns Ok without aborting, with len() = n and get(i)
\* converting to the i-th input.
C9_ArrayRoundTrip ==
    (/\ lastOp.op = "array"
     /\ ~lastOp.oom
     /\ \A i \in 1..Len(lastOp.args) : is_integer(lastOp.args[i])) =>
        /\ ~lastOp.panic
        /\ lastOp.ok
        /\ lastOp.val.tag = "OBJECT"
        /\ Array_len(heap, lastOp.val.ptr) = Some(SignExtend(Len(lastOp.args)))
        /\ \A i \in 1..Len(lastOp.args) :
              as_integer(JS_GetPropertyUint32(heap, lastOp.val.ptr, i - 1))
                  = as_integer(lastOp.args[i])

\* C10: an iteration over an Array comes to an end: while the iterator is
\* in use over an array that is not released, next() eventually returns
\* None.
C10_IterationEnds ==
    iter.active ~> (iter.done \/ ~iter.active \/ heap[iter.array].freed > 0)

\* C11: a comparison of two Values answers true if and only if they belong
\* to the same Context, carry the same tag and, when the tag is
\* pointer-backed, wrap the same heap block.
C11_EqualIffSameIdentity ==
    lastOp.op = "eq" =>
        (lastOp.ok <=>
            /\ lastOp.ctx = lastOp.other
            /\ lastOp.val.tag = lastOp.args[1].tag
            /\ HasRefCount(lastOp.val) => lastOp.val.ptr = lastOp.args[1].ptr)

\* what Object::get(key) returns on object o of heap h
Object_get(h, o, key) ==
    LET v == JS_GetPropertyStr(h, o, cstr(key))
    IN [ok |-> ~is_exception(v), val |-> v]

\* C12: once Object::set(key, v) has returned true, Object::get(key) returns
\* Ok with a Value equal to v, right away and also after Object::set was
\* called with another key in between.
C12_ObjectRoundTrip ==
    [][LET SamePayload(a, b) == /\ a.tag = b.tag
                                /\ HasRefCount(a) => a.ptr = b.ptr
       IN /\ (lastOp'.op = "oset" /\ lastOp'.ok) =>
               LET r == Object_get(heap', lastOp'.other, lastOp'.key)
               IN r.ok /\ SamePayload(r.val, lastOp'.val)
          /\ (/\ lastOp.op = "oset" /\ lastOp.ok
              /\ lastOp'.op = "oset"
              /\ lastOp'.other = lastOp.other
              /\ lastOp'.key # lastOp.key) =>
               LET r == Object_get(heap', lastOp.other, lastOp.key)
               IN r.ok /\ SamePayload(r.val, lastOp.val)]_vars

\* the heap blocks the engine passed to the invocation fr as receiver and
\* arguments
PassedBlocks(fr) ==
    {v.ptr : v \in {x \in {fr.this.value} \cup {fr.args[i] : i \in 1..Len(fr.args)} :
                        HasRefCount(x)}}

\* C13: when a trampoline returns, the host does not run the destructor of
\* the Value the closure returned: a pointer-backed returned payload that is
\* not also a receiver or argument of the invocation keeps its reference
\* count and is not released.
C13_ReturnedPayloadNotReleased ==
    [][Len(frames') < Len(frames) =>
        \A r \in BagToSet(values') :
            (/\ CopiesIn(r, values') > CopiesIn(r, values)
             /\ HasRefCount(r.value)
             /\ r.value.ptr \notin PassedBlocks(frames[Depth])) =>
                /\ heap'[r.value.ptr].freed = heap[r.value.ptr].freed
                /\ heap'[r.value.ptr].rc = heap[r.value.ptr].rc]_vars

\* C15: a trampoline invocation whose closure only returns leaves the
\* reference count of every pointer-backed receiver or argument it does not
\* return as it was when the trampoline was entered.
C15_TrampolineKeepsArgumentCounts ==
    [][(lastOp.op = "call" /\ lastOp'.op = "return") =>
        \A b \in PassedBlocks(frames[Depth]) :
            (\A r \in BagToSet(values') :
                CopiesIn(r, values') > CopiesIn(r, values) =>
                    ~(HasRefCount(r.value) /\ r.value.ptr = b)) =>
                /\ heap'[b].freed = heap[b].freed
                /\ heap'[b].rc = heap[b].rc]_vars

\* the number a payload carries, as an i64
Number(v) == IF v.tag = "INT" THEN SignExtend(v.int) ELSE v.dbl

\* C14: a call of a registered function through Value::call hands the closure
\* the arguments in the order and number they were passed, and returns a
\* Value that carries the payload the closure returned: for the closure that
\* sums its two integer arguments, the number a + b.
C14_CallMarshalsArgumentsAndResult ==
    (lastOp.op = "callsum" /\ ~lastOp.panic) =>
        /\ lastOp.args = lastOp.passed
        /\ lastOp.val = test_func2(lastOp.passed).val
        /\ Number(lastOp.val) =
              Add64(Number(lastOp.passed[1]), Number(lastOp.passed[2]))

\* the call of tests::func2: (23, 42) returns 65
C14_Witness ==
    /\ lastOp.op = "callsum"
    /\ lastOp.passed = <<JSInt(23), JSInt(42)>>
    /\ lastOp.val = JSInt(65)

\* number of container slots, over all live blocks, that hold block b
SlotsOf(h, b) ==
    LET RECURSIVE In(_)
        In(sl) == IF sl = <<>> THEN 0
                  ELSE (IF HasRefCount(Head(sl)) /\ Head(sl).ptr = b THEN 1 ELSE 0)
                       + In(Tail(sl))
        RECURSIVE Over(_)
        Over(B) == IF B = {} THEN 0
                   ELSE LET x == CHOOSE y \in B : TRUE
                        IN In(h[x].slots) + Over(B \ {x})
    IN Over({x \in Blocks : h[x].freed = 0})

\* C16: after Array::set(index, v) with a pointer-backed v has returned and
\* the passed guard is gone, the block is live and its reference count is
\* the number of live guards on it plus one for every container slot that
\* holds it.
C16_ArraySetKeepsCountBalanced ==
    [][lastOp'.op = "set" =>
        \A g \in BagToSet(values) :
            (/\ CopiesIn(g, values') < CopiesIn(g, values)
             /\ HasRefCount(g.value)
             /\ heap[g.value.ptr].freed = 0) =>
                /\ heap'[g.value.ptr].freed = 0
                /\ heap'[g.value.ptr].rc =
                      GuardsOf(g.value.ptr)' + SlotsOf(heap', g.value.ptr)]_vars

====
